---- MODULE Spec2Model ----
(***************************************************************************)
(* A model of utils_torch.py: the training script of the CNN-RNN proxy     *)
(* model (data split, model components, composite loss, training loop).    *)
(*                                                                         *)
(* Four specifications share the module:                                   *)
(*   Spec / FairSpec  the training loop, lines 204-238                     *)
(*   SpecSplit        the two data splits, lines 37-42 and 210-211         *)
(*   SpecForward      single calls of the model components and the loss    *)
(*   SpecRecurrent    successive forward calls of one RecurrentBlock       *)
(***************************************************************************)
EXTENDS Integers, Sequences, FiniteSets, TLC

VARIABLES
    \* ---- training loop (lines 204-238)
    pool,               \* len(train_dataset)
    pc,                 \* position of the script
    epoch_iter,         \* next value range(num_epochs) yields
    epoch,              \* the loop variable of line 206
    train_subset_size,  \* line 210
    val_subset_size,    \* second length handed to random_split, line 211
    train_batches,      \* len(train_dataloader)
    val_batches,        \* len(valid_dataloader)
    batch_idx,          \* batches the current loader has delivered
    seen,               \* samples the current loader has delivered
    loss,               \* loss.item() of the current batch
    train_loss,         \* accumulator of line 208/222
    val_loss,           \* accumulator of line 226/232
    tot_train_loss,     \* line 223
    tot_valid_loss,     \* line 233
    params,             \* version of model.parameters()
    opt_state,          \* optimizer step count (NAdam state)
    grads,              \* the .grad fields: "none" | "set"
    training,           \* model.training
    grad_enabled,       \* FALSE inside torch.no_grad()
    ops,                \* operations performed on the current batch
    stdout,             \* lines printed so far
    error,              \* the exception that ended the script, or "none"
    \* ---- the two data splits (lines 37-42, 210-211)
    files,              \* number of files os.listdir returned
    X_train_fname,      \* the training pool: a list of file ids
    X_test_fname,       \* the held-out test files
    train_subset,       \* train_subset.indices (positions in the pool)
    val_subset,         \* val_subset.indices
    splits,             \* epochs whose re-split has run
    \* ---- single calls of the components
    call,               \* the last call: component, input, result
    \* ---- one RecurrentBlock called repeatedly
    rnn_calls,          \* inputs and outputs of the forward calls so far
    rnn_hx              \* the final (h_n, c_n) line 145 binds to _

loopvars == <<pool, pc, epoch_iter, epoch, train_subset_size, val_subset_size,
              train_batches, val_batches, batch_idx, seen, loss, train_loss,
              val_loss, tot_train_loss, tot_valid_loss, params, opt_state,
              grads, training, grad_enabled, ops, stdout, error>>

splitvars == <<files, X_train_fname, X_test_fname, train_subset, val_subset,
               splits>>

rnnvars == <<rnn_calls, rnn_hx>>

vars == <<loopvars, splitvars, call, rnnvars>>

\* what the training loop leaves alone
others == <<splitvars, call, rnnvars>>

----------------------------------------------------------------------------
(* Program constants *)

batch_size == 32
num_epochs == 20
report_every == 5

(* Bounds of the model *)

\* pools of 1 .. MaxPool samples
MaxPool == 3
\* and pools of 1 .. MaxOver samples more than 40, the largest pool whose
\* training subset (32 samples) still fits one batch with room to spare
MaxOver == 2

\* loss.item() is a float decided by data and parameters; the model lets
\* every batch yield either of two magnitudes.
LossValues == {1, 2}

NoValue == 0 - 1
NoAverage == [num |-> NoValue, den |-> NoValue]

PoolSizes == (1 .. MaxPool) \cup
             { batch_size + batch_size \div 4 + d : d \in 1 .. MaxOver }

----------------------------------------------------------------------------
(* Helpers of the training loop *)

\* int(len(train_dataset) * 0.8): the float product truncates to floor(8n/10)
TrainSubsetSizeMutAll(n) == n
TrainSubsetSize(n) == (8 * n) \div 10

\* len(DataLoader(subset, batch_size)) with drop_last=False
LoaderLen(size) == (size + batch_size - 1) \div batch_size

\* samples in the next batch of a loader that has delivered `done` of `size`
BatchLen(size, done) == IF size - done < batch_size THEN size - done ELSE batch_size

\* range(num_epochs) has another value to yield
HasNextEpochMutShort == epoch_iter < num_epochs - 1
HasNextEpoch == epoch_iter < num_epochs

\* (epoch+1) % 5 == 0
ReportDueMutOffByOne == epoch % report_every = 0
ReportDue == (epoch + 1) % report_every = 0

\* '{:.4f}'.format(num/den): the quotient in ten-thousandths, rounded
Fmt4(num, den) == (20000 * num + den) \div (2 * den)

ProgressLine(e, n, tl, vl) ==
    [kind |-> "progress", epoch |-> e, of |-> n, loss |-> tl, val |-> vl]

FinishedLine ==
    [kind |-> "finished", epoch |-> 0, of |-> 0, loss |-> 0, val |-> 0]

----------------------------------------------------------------------------
(* The training loop *)

LoopInit ==
    /\ pool \in PoolSizes
    /\ pc = "for_epoch"
    /\ epoch_iter = 0
    /\ epoch = NoValue
    /\ train_subset_size = NoValue
    /\ val_subset_size = NoValue
    /\ train_batches = NoValue
    /\ val_batches = NoValue
    /\ batch_idx = 0
    /\ seen = 0
    /\ loss = NoValue
    /\ train_loss = NoValue
    /\ val_loss = NoValue
    /\ tot_train_loss = NoAverage
    /\ tot_valid_loss = NoAverage
    /\ params = 0
    /\ opt_state = 0
    /\ grads = "none"
    /\ training = TRUE
    /\ grad_enabled = TRUE
    /\ ops = <<>>
    /\ stdout = <<>>
    /\ error = "none"

\* lines 206-213: next epoch, model.train(), train_loss = 0.0, the re-split
\* and the two loaders.  loss, val_loss and the two averages are dead here
\* (each is assigned again before it is read), so the loop head drops them.
EpochStart ==
    /\ pc = "for_epoch"
    /\ HasNextEpoch
    /\ epoch' = epoch_iter
    /\ epoch_iter' = epoch_iter + 1
    /\ training' = TRUE
    /\ train_loss' = 0
    /\ train_subset_size' = TrainSubsetSize(pool)
    /\ val_subset_size' = pool - TrainSubsetSize(pool)
    /\ train_batches' = LoaderLen(TrainSubsetSize(pool))
    /\ val_batches' = LoaderLen(pool - TrainSubsetSize(pool))
    /\ batch_idx' = 0
    /\ seen' = 0
    /\ loss' = NoValue
    /\ val_loss' = NoValue
    /\ tot_train_loss' = NoAverage
    /\ tot_valid_loss' = NoAverage
    /\ ops' = <<>>
    /\ pc' = "train_loop"
    /\ UNCHANGED <<pool, params, opt_state, grads, grad_enabled, stdout, error>>
    /\ UNCHANGED others

\* lines 215-216: the training loader delivers its next batch
TrainFetch ==
    /\ pc = "train_loop"
    /\ batch_idx < train_batches
    /\ seen' = seen + BatchLen(train_subset_size, seen)
    /\ batch_idx' = batch_idx + 1
    /\ ops' = <<>>
    /\ pc' = "zero_grad"
    /\ UNCHANGED <<pool, epoch_iter, epoch, train_subset_size, val_subset_size,
                   train_batches, val_batches, loss, train_loss, val_loss,
                   tot_train_loss, tot_valid_loss, params, opt_state, grads,
                   training, grad_enabled, stdout, error>>
    /\ UNCHANGED others

\* line 217: optimizer.zero_grad()
ZeroGrad ==
    /\ pc = "zero_grad"
    /\ grads' = "none"
    /\ ops' = Append(ops, "zero_grad")
    /\ pc' = "forward"
    /\ UNCHANGED <<pool, epoch_iter, epoch, train_subset_size, val_subset_size,
                   train_batches, val_batches, batch_idx, seen, loss, train_loss,
                   val_loss, tot_train_loss, tot_valid_loss, params, opt_state,
                   training, grad_enabled, stdout, error>>
    /\ UNCHANGED others

\* lines 218-219: y_pred = model(x); loss = criterion(y_pred, y)
TrainForward ==
    /\ pc = "forward"
    /\ \E l \in LossValues : loss' = l
    /\ ops' = ops \o <<"forward", "criterion">>
    /\ pc' = "backward"
    /\ UNCHANGED <<pool, epoch_iter, epoch, train_subset_size, val_subset_size,
                   train_batches, val_batches, batch_idx, seen, train_loss,
                   val_loss, tot_train_loss, tot_valid_loss, params, opt_state,
                   grads, training, grad_enabled, stdout, error>>
    /\ UNCHANGED others

\* line 220: loss.backward()
Backward ==
    /\ pc = "backward"
    /\ grads' = IF grad_enabled THEN "set" ELSE grads
    /\ ops' = Append(ops, "backward")
    /\ pc' = "step"
    /\ UNCHANGED <<pool, epoch_iter, epoch, train_subset_size, val_subset_size,
                   train_batches, val_batches, batch_idx, seen, loss, train_loss,
                   val_loss, tot_train_loss, tot_valid_loss, params, opt_state,
                   training, grad_enabled, stdout, error>>
    /\ UNCHANGED others

\* line 221: optimizer.step() updates every parameter that has a gradient
OptimizerStep ==
    /\ pc = "step"
    /\ params' = IF grads = "set" THEN params + 1 ELSE params
    /\ opt_state' = IF grads = "set" THEN opt_state + 1 ELSE opt_state
    /\ ops' = Append(ops, "step")
    /\ pc' = "accumulate"
    /\ UNCHANGED <<pool, epoch_iter, epoch, train_subset_size, val_subset_size,
                   train_batches, val_batches, batch_idx, seen, loss, train_loss,
                   val_loss, tot_train_loss, tot_valid_loss, grads, training,
                   grad_enabled, stdout, error>>
    /\ UNCHANGED others

\* line 222: train_loss += loss.item()
TrainAccumulate ==
    /\ pc = "accumulate"
    /\ train_loss' = train_loss + loss
    /\ pc' = "train_loop"
    /\ UNCHANGED <<pool, epoch_iter, epoch, train_subset_size, val_subset_size,
                   train_batches, val_batches, batch_idx, seen, loss, val_loss,
                   tot_train_loss, tot_valid_loss, params, opt_state, grads,
                   training, grad_enabled, ops, stdout, error>>
    /\ UNCHANGED others

\* line 223: the training loader is exhausted; train_loss/len(train_dataloader)
\* raises ZeroDivisionError when the loader holds no batch
TrainLoopDone ==
    /\ pc = "train_loop"
    /\ batch_idx = train_batches
    /\ IF train_batches = 0
       THEN /\ pc' = "crashed"
            /\ error' = "ZeroDivisionError"
            /\ UNCHANGED tot_train_loss
       ELSE /\ pc' = "eval"
            /\ tot_train_loss' = [num |-> train_loss, den |-> train_batches]
            /\ UNCHANGED error
    /\ UNCHANGED <<pool, epoch_iter, epoch, train_subset_size, val_subset_size,
                   train_batches, val_batches, batch_idx, seen, loss, train_loss,
                   val_loss, tot_valid_loss, params, opt_state, grads, training,
                   grad_enabled, ops, stdout>>
    /\ UNCHANGED others

\* lines 225-227: model.eval(); val_loss = 0.0; with torch.no_grad():
EvalMode ==
    /\ pc = "eval"
    /\ training' = FALSE
    /\ val_loss' = 0
    /\ grad_enabled' = FALSE
    /\ batch_idx' = 0
    /\ seen' = 0
    /\ pc' = "val_loop"
    /\ UNCHANGED <<pool, epoch_iter, epoch, train_subset_size, val_subset_size,
                   train_batches, val_batches, loss, train_loss, tot_train_loss,
                   tot_valid_loss, params, opt_state, grads, ops, stdout, error>>
    /\ UNCHANGED others

\* lines 228-229: the validation loader delivers its next batch
ValFetch ==
    /\ pc = "val_loop"
    /\ batch_idx < val_batches
    /\ seen' = seen + BatchLen(val_subset_size, seen)
    /\ batch_idx' = batch_idx + 1
    /\ ops' = <<>>
    /\ pc' = "val_forward"
    /\ UNCHANGED <<pool, epoch_iter, epoch, train_subset_size, val_subset_size,
                   train_batches, val_batches, loss, train_loss, val_loss,
                   tot_train_loss, tot_valid_loss, params, opt_state, grads,
                   training, grad_enabled, stdout, error>>
    /\ UNCHANGED others

\* lines 230-231: y_pred = model(x); loss = criterion(y_pred, y)
ValForward ==
    /\ pc = "val_forward"
    /\ \E l \in LossValues : loss' = l
    /\ ops' = ops \o <<"forward", "criterion">>
    /\ pc' = "val_accumulate"
    /\ UNCHANGED <<pool, epoch_iter, epoch, train_subset_size, val_subset_size,
                   train_batches, val_batches, batch_idx, seen, train_loss,
                   val_loss, tot_train_loss, tot_valid_loss, params, opt_state,
                   grads, training, grad_enabled, stdout, error>>
    /\ UNCHANGED others

\* line 232: val_loss += loss.item()
ValAccumulateMutStep ==
    /\ pc = "val_accumulate"
    /\ val_loss' = val_loss + loss
    /\ params' = params + 1
    /\ opt_state' = opt_state + 1
    /\ pc' = "val_loop"
    /\ UNCHANGED <<pool, epoch_iter, epoch, train_subset_size, val_subset_size,
                   train_batches, val_batches, batch_idx, seen, loss, train_loss,
                   tot_train_loss, tot_valid_loss, grads,
                   training, grad_enabled, ops, stdout, error>>
    /\ UNCHANGED others
ValAccumulate ==
    /\ pc = "val_accumulate"
    /\ val_loss' = val_loss + loss
    /\ pc' = "val_loop"
    /\ UNCHANGED <<pool, epoch_iter, epoch, train_subset_size, val_subset_size,
                   train_batches, val_batches, batch_idx, seen, loss, train_loss,
                   tot_train_loss, tot_valid_loss, params, opt_state, grads,
                   training, grad_enabled, ops, stdout, error>>
    /\ UNCHANGED others

\* line 233: the validation loader is exhausted and the no_grad block ends;
\* val_loss/len(valid_dataloader) raises ZeroDivisionError on an empty loader
ValLoopDone ==
    /\ pc = "val_loop"
    /\ batch_idx = val_batches
    /\ grad_enabled' = TRUE
    /\ IF val_batches = 0
       THEN /\ pc' = "crashed"
            /\ error' = "ZeroDivisionError"
            /\ UNCHANGED tot_valid_loss
       ELSE /\ pc' = "report"
            /\ tot_valid_loss' = [num |-> val_loss, den |-> val_batches]
            /\ UNCHANGED error
    /\ UNCHANGED <<pool, epoch_iter, epoch, train_subset_size, val_subset_size,
                   train_batches, val_batches, batch_idx, seen, loss, train_loss,
                   val_loss, tot_train_loss, params, opt_state, grads, training,
                   ops, stdout>>
    /\ UNCHANGED others

\* lines 235-236: the progress report of every fifth epoch
Report ==
    /\ pc = "report"
    /\ stdout' = IF ReportDue
                 THEN Append(stdout,
                        ProgressLine(epoch + 1, num_epochs,
                            Fmt4(tot_train_loss.num, tot_train_loss.den),
                            Fmt4(tot_valid_loss.num, tot_valid_loss.den)))
                 ELSE stdout
    /\ pc' = "for_epoch"
    /\ UNCHANGED <<pool, epoch_iter, epoch, train_subset_size, val_subset_size,
                   train_batches, val_batches, batch_idx, seen, loss, train_loss,
                   val_loss, tot_train_loss, tot_valid_loss, params, opt_state,
                   grads, training, grad_enabled, ops, error>>
    /\ UNCHANGED others

\* line 238: range(num_epochs) is exhausted; print("Training finished.")
TrainingFinished ==
    /\ pc = "for_epoch"
    /\ ~HasNextEpoch
    /\ stdout' = Append(stdout, FinishedLine)
    /\ pc' = "finished"
    /\ UNCHANGED <<pool, epoch_iter, epoch, train_subset_size, val_subset_size,
                   train_batches, val_batches, batch_idx, seen, loss, train_loss,
                   val_loss, tot_train_loss, tot_valid_loss, params, opt_state,
                   grads, training, grad_enabled, ops, error>>
    /\ UNCHANGED others

LoopStep ==
    \/ EpochStart
    \/ TrainFetch
    \/ ZeroGrad
    \/ TrainForward
    \/ Backward
    \/ OptimizerStep
    \/ TrainAccumulate
    \/ TrainLoopDone
    \/ EvalMode
    \/ ValFetch
    \/ ValForward
    \/ ValAccumulate
    \/ ValLoopDone
    \/ Report
    \/ TrainingFinished

----------------------------------------------------------------------------
(* The data splits *)

\* files in the data directory: 2 .. MaxFiles (train_test_split raises on
\* fewer than 2, and the script ends before any split exists)
MaxFiles == 4

Perms(n) == { p \in [1 .. n -> 1 .. n] : \A i, j \in 1 .. n : p[i] = p[j] => i = j }

Range(f) == { f[i] : i \in DOMAIN f }

\* sklearn's n_test for test_size=0.25: ceil(0.25 * n_samples)
TestSize(n) == (n + 3) \div 4

\* list[a:b] for 0 <= a <= b <= len(list)
Slice(list, a, b) == [i \in 1 .. (b - a) |-> list[a + i]]

\* random_split(dataset, lengths) with the permutation randperm drew:
\* Subset(dataset, indices[offset - length : offset]) for each length
RandomSplitMutFromZero(perm, lengths) ==
    << Slice(perm, 0, lengths[1]), Slice(perm, 0, lengths[2]) >>
RandomSplit(perm, lengths) ==
    << Slice(perm, 0, lengths[1]),
       Slice(perm, lengths[1], lengths[1] + lengths[2]) >>

\* CustomDataset.__getitem__: the file a subset index stands for
Samples(indices) == { X_train_fname[i] : i \in Range(indices) }

SplitInit ==
    /\ files \in 2 .. MaxFiles
    /\ X_train_fname = <<>>
    /\ X_test_fname = <<>>
    /\ train_subset = <<>>
    /\ val_subset = <<>>
    /\ splits = NoValue

\* lines 37-42: train_test_split(X_fname, y_fname, test_size=0.25) shuffles
\* the files, takes the first n_test as test set and the rest as pool
TrainTestSplit ==
    /\ splits = NoValue
    /\ \E perm \in Perms(files) :
          /\ X_test_fname' = Slice(perm, 0, TestSize(files))
          /\ X_train_fname' = Slice(perm, TestSize(files), files)
    /\ splits' = 0
    /\ UNCHANGED <<files, train_subset, val_subset>>
    /\ UNCHANGED <<loopvars, call, rnnvars>>

\* lines 210-211 of the next epoch: the pool is split again
EpochSplit ==
    /\ splits # NoValue
    /\ splits < num_epochs
    /\ LET n == Len(X_train_fname)
           k == TrainSubsetSize(n)
       IN \E perm \in Perms(n) :
             /\ train_subset' = RandomSplit(perm, <<k, n - k>>)[1]
             /\ val_subset' = RandomSplit(perm, <<k, n - k>>)[2]
    /\ splits' = splits + 1
    /\ UNCHANGED <<files, X_train_fname, X_test_fname>>
    /\ UNCHANGED <<loopvars, call, rnnvars>>

SplitStep ==
    \/ TrainTestSplit
    \/ EpochSplit

----------------------------------------------------------------------------
(* Tensors: a shape and the elements in row-major order *)

RECURSIVE Prod(_)
Prod(s) == IF s = <<>> THEN 1 ELSE s[1] * Prod(Tail(s))

RECURSIVE Ravel(_, _)
\* flat offset of a 0-based index
Ravel(idx, shape) ==
    IF idx = <<>> THEN 0
    ELSE idx[1] * Prod(Tail(shape)) + Ravel(Tail(idx), Tail(shape))

\* 0-based index of a flat offset
Unravel(f, shape) ==
    [k \in 1 .. Len(shape) |->
        (f \div Prod(SubSeq(shape, k + 1, Len(shape)))) % shape[k]]

Indices(shape) == { Unravel(f, shape) : f \in 0 .. Prod(shape) - 1 }

At(t, idx) == t.data[Ravel(idx, t.shape) + 1]

\* a tensor whose element at idx is elem[idx]
Build(shape, elem) ==
    [shape |-> shape,
     data |-> [f \in 1 .. Prod(shape) |-> elem[Unravel(f - 1, shape)]]]

\* the sizes a reshape/view request stands for; -1 is inferred
InferShape(request, numel) ==
    LET known == Prod(SelectSeq(request, LAMBDA d : d # -1))
    IN [k \in 1 .. Len(request) |->
          IF request[k] = -1 THEN numel \div known ELSE request[k]]

\* x.view(*request) and x.reshape(*request) of a contiguous tensor
View(t, request) ==
    [shape |-> InferShape(request, Len(t.data)), data |-> t.data]

\* x.permute(*dims), made contiguous
Permute(t, dims) ==
    LET shape == [k \in 1 .. Len(dims) |-> t.shape[dims[k] + 1]]
        Src(idx) == [d \in 1 .. Len(dims) |->
                        idx[CHOOSE k \in 1 .. Len(dims) : dims[k] + 1 = d]]
    IN Build(shape, [idx \in Indices(shape) |-> At(t, Src(idx))])

\* an input tensor whose elements are all distinct
Arange(shape) == [shape |-> shape, data |-> [f \in 1 .. Prod(shape) |-> f - 1]]

----------------------------------------------------------------------------
(* TimeDistributedModule, lines 62-72 *)

MaxDim == 2

\* the wrapped module's forward; nn.Identity returns its input
ModuleForward(module, x) ==
    CASE module = "Identity" -> x

TimeDistributedForwardMutSwapped(x, module) ==
    LET batch == x.shape[1]
        time_steps == x.shape[2]
        flat == View(x, <<-1, x.shape[3], x.shape[4], x.shape[5]>>)
        module_output == ModuleForward(module, flat)
    IN View(module_output, <<time_steps, batch, -1, module_output.shape[3],
                             module_output.shape[4]>>)
TimeDistributedForward(x, module) ==
    LET batch == x.shape[1]
        time_steps == x.shape[2]
        channels == x.shape[3]
        height == x.shape[4]
        width == x.shape[5]
        flat == View(x, <<-1, channels, height, width>>)
        module_output == ModuleForward(module, flat)
    IN View(module_output, <<batch, time_steps, -1, module_output.shape[3],
                             module_output.shape[4]>>)

----------------------------------------------------------------------------
(* VisionTransformer (the attention block), lines 107-128 *)

num_heads == 16

\* the 1x1 convolution and GELU of lines 110-112: output channel c at
\* (b, h, w) is computed from the input's channels at (b, h, w)
Projector(x, output_channels) ==
    LET shape == <<x.shape[1], output_channels, x.shape[3], x.shape[4]>>
    IN Build(shape, [i \in Indices(shape) |->
          [op |-> "proj",
           src |-> { At(x, <<i[1], c, i[3], i[4]>>) : c \in 0 .. x.shape[2] - 1 },
           ch |-> i[2]]])

\* the token (sequence of channels) at the leading indices `at` of a
\* tensor whose last axis is the channel axis
Token(t, at) ==
    [c \in 1 .. t.shape[Len(t.shape)] |-> At(t, Append(at, c - 1))]

\* self-attention over a (L, N, E) sequence (batch_first=False): the output
\* at (l, n) is computed from query token (l, n) and the tokens of batch n
MultiheadAttention(seq) ==
    Build(seq.shape, [i \in Indices(seq.shape) |->
          [op |-> "attn",
           query |-> { e.src : e \in Range(Token(seq, <<i[1], i[2]>>)) },
           ch |-> i[3]]])

\* self.ffn, lines 114-117, on a (N, L, E) tensor: nn.Linear acts on the
\* last axis, one token at a time
Ffn(tokens) ==
    Build(tokens.shape, [i \in Indices(tokens.shape) |->
          [op |-> "ffn", in |-> Token(tokens, <<i[1], i[2]>>), ch |-> i[3]]])

\* forward, lines 119-128, with its intermediate tensors
VisionTransformerForward(x, output_channels) ==
    LET projected_x == Projector(x, output_channels)
        batch == projected_x.shape[1]
        channels == projected_x.shape[2]
        height == projected_x.shape[3]
        width == projected_x.shape[4]
        x_reshaped == Permute(View(projected_x, <<batch, channels, -1>>), <<2, 0, 1>>)
        attended_0 == MultiheadAttention(x_reshaped)
        attended_1 == View(Permute(attended_0, <<1, 2, 0>>),
                           <<batch, channels, height, width>>)
        attended_2 == View(Permute(attended_1, <<0, 2, 1, 3>>),
                           <<batch, height * width, channels>>)
        ffn_0 == Ffn(attended_2)
        ffn_output == Permute(View(ffn_0, <<batch, height, width, channels>>),
                              <<0, 3, 1, 2>>)
    IN [attended |-> attended_1, tokens |-> attended_2, output |-> ffn_output]

----------------------------------------------------------------------------
(* Shapes through the layers: the result of a layer is a shape or the     *)
(* exception the layer raises                                              *)

Ok(shape) == [ok |-> TRUE, err |-> "none", shape |-> shape]
Raise(err) == [ok |-> FALSE, err |-> err, shape |-> <<>>]

\* nn.Conv2d(in_c, out_c, kernel_size=k, padding=p), stride 1
Conv2d(s, in_c, out_c, k, p) ==
    IF s[2] # in_c \/ s[3] + 2 * p < k \/ s[4] + 2 * p < k
    THEN Raise("RuntimeError")
    ELSE Ok(<<s[1], out_c, s[3] + 2 * p - k + 1, s[4] + 2 * p - k + 1>>)

\* nn.InstanceNorm2d normalises with the input's own statistics and
\* refuses an input with a single spatial element
InstanceNorm2d(s) ==
    IF s[3] * s[4] = 1 THEN Raise("ValueError") ELSE Ok(s)

\* nn.AvgPool2d(kernel_size=2, stride=2)
AvgPool2d(s) ==
    IF s[3] < 2 \/ s[4] < 2 THEN Raise("RuntimeError")
    ELSE Ok(<<s[1], s[2], (s[3] - 2) \div 2 + 1, (s[4] - 2) \div 2 + 1>>)

\* nn.ConvTranspose2d(in_c, out_c, kernel_size=3, stride=2, padding=1,
\* output_padding=1): (size - 1) * 2 - 2 * 1 + (3 - 1) + 1 + 1
ConvTranspose2d(s, in_c, out_c) ==
    IF s[2] # in_c THEN Raise("RuntimeError")
    ELSE Ok(<<s[1], out_c, (s[3] - 1) * 2 - 2 + 2 + 1 + 1,
              (s[4] - 1) * 2 - 2 + 2 + 1 + 1>>)

\* lines 107-128 on shapes: the projector sets the channel count, attention
\* and feed-forward keep every size
VisionTransformerShape(s, input_channels, output_channels) ==
    IF output_channels % num_heads # 0 THEN Raise("AssertionError")
    ELSE Conv2d(s, input_channels, output_channels, 1, 0)

timesteps == 60

\* lines 131-149: the LSTM accepts input_dim * im_size^2 features per step
RecurrentBlockShape(s, input_dim, hidden_dim, im_size) ==
    LET features == s[2] * s[3] * s[4]
        input_size == input_dim * im_size * im_size
    IN IF features # input_size THEN Raise("RuntimeError")
       ELSE Ok(<<s[1], timesteps, hidden_dim, im_size, im_size>>)

\* self.recurrent = RecurrentBlock(64, 32, im_size=2**3), line 162
RecurrentMutFollowInput(s) == Ok(<<s[1], timesteps, 32, s[3], s[4]>>)
Recurrent(s) == RecurrentBlockShape(s, 64, 32, 8)

\* line 69: x.reshape(-1, channels, height, width)
TimeDistributedFrames(s) == <<s[1] * s[2], s[3], s[4], s[5]>>

\* lines 67-72 on shapes, out being the wrapped module's result on the
\* frames of s
TimeDistributedShape(s, out) ==
    IF ~out.ok THEN out
    ELSE Ok(<<s[1], s[2],
              Prod(out.shape) \div (s[1] * s[2] * out.shape[3] * out.shape[4]),
              out.shape[3], out.shape[4]>>)

RECURSIVE Forward(_, _)

RECURSIVE Sequential(_, _)
\* the modules applied one after the other to the shape r carries; an
\* exception ends the chain
Sequential(modules, r) ==
    IF Len(modules) = 0 \/ ~r.ok THEN r
    ELSE CHOOSE y \in { Sequential(Tail(modules), out) :
                          out \in { Forward(Head(modules), r.shape) } } : TRUE

\* lines 50-59
SeparableConv2d(s, in_channels, out_channels) ==
    Sequential(<<[module |-> "Conv2d", in |-> in_channels, out |-> in_channels,
                  kernel_size |-> 3, padding |-> 1],
                 [module |-> "Conv2d", in |-> in_channels, out |-> out_channels,
                  kernel_size |-> 1, padding |-> 0]>>, Ok(s))

\* lines 76-90
conv_block(s, in_channels, out_channels) ==
    Sequential(<<[module |-> "SeparableConv2d", in |-> in_channels, out |-> in_channels],
                 [module |-> "SeparableConv2d", in |-> in_channels, out |-> out_channels],
                 [module |-> "InstanceNorm2d"],
                 [module |-> "GELU"],
                 [module |-> "AvgPool2d"]>>, Ok(s))

\* lines 93-104
decon_block(s, in_channels, out_channels) ==
    Sequential(<<[module |-> "ConvTranspose2d", in |-> in_channels, out |-> out_channels],
                 [module |-> "InstanceNorm2d"],
                 [module |-> "GELU"]>>, Ok(s))

\* module(x) for the modules the model is built from: the shape returned
\* or the exception raised
Forward(m, s) ==
    CASE m.module = "Conv2d" -> Conv2d(s, m.in, m.out, m.kernel_size, m.padding)
      [] m.module = "SeparableConv2d" -> SeparableConv2d(s, m.in, m.out)
      [] m.module = "InstanceNorm2d" -> InstanceNorm2d(s)
      [] m.module = "GELU" -> Ok(s)
      [] m.module = "AvgPool2d" -> AvgPool2d(s)
      [] m.module = "ConvTranspose2d" -> ConvTranspose2d(s, m.in, m.out)
      [] m.module = "conv_block" -> conv_block(s, m.in, m.out)
      [] m.module = "decon_block" -> decon_block(s, m.in, m.out)
      [] m.module = "VisionTransformer" -> VisionTransformerShape(s, m.in, m.out)
      [] m.module = "RecurrentBlock" -> Recurrent(s)
      [] m.module = "TimeDistributedModule" ->
            TimeDistributedShape(s, Forward(m.inner, TimeDistributedFrames(s)))

\* lines 151-174
ProxyModelForward(x) ==
    LET encoder == <<[module |-> "conv_block", in |-> 4, out |-> 8],
                     [module |-> "conv_block", in |-> 8, out |-> 16],
                     [module |-> "conv_block", in |-> 16, out |-> 32]>>
        vit == [module |-> "VisionTransformer", in |-> 32, out |-> 64]
        recurrent == [module |-> "RecurrentBlock"]
        decoder ==
            <<[module |-> "TimeDistributedModule",
               inner |-> [module |-> "decon_block", in |-> 32, out |-> 16]],
              [module |-> "TimeDistributedModule",
               inner |-> [module |-> "decon_block", in |-> 16, out |-> 8]],
              [module |-> "TimeDistributedModule",
               inner |-> [module |-> "decon_block", in |-> 8, out |-> 2]]>>
    IN Sequential(encoder \o <<vit, recurrent>> \o decoder, Ok(x))

----------------------------------------------------------------------------
(* CustomLoss, lines 176-196, on shapes *)

\* F.mse_loss broadcasts its arguments (torch.broadcast_tensors) and raises
\* only for shapes that do not broadcast
Broadcastable(a, b) ==
    /\ Len(a) = Len(b)
    /\ \A k \in 1 .. Len(a) : a[k] = b[k] \/ a[k] = 1 \/ b[k] = 1

MseLoss(output, target) ==
    IF Broadcastable(output, target) THEN Ok(<<>>) ELSE Raise("RuntimeError")

\* tensor[:, t] of a 5D tensor
SelectStep(s) == <<s[1], s[3], s[4], s[5]>>

\* torchmetrics' StructuralSimilarityIndexMeasure raises unless prediction
\* and target have the same shape
Ssim(pred, target) ==
    IF pred # target THEN Raise("RuntimeError") ELSE Ok(<<>>)

RECURSIVE SsimLoop(_, _, _)
\* the loop of lines 188-192 from step t on
SsimLoop(output, target, t) ==
    IF t >= output[2] THEN Ok(<<>>)
    ELSE IF t >= target[2] THEN Raise("IndexError")
    ELSE IF ~Ssim(SelectStep(output), SelectStep(target)).ok
         THEN Ssim(SelectStep(output), SelectStep(target))
    ELSE SsimLoop(output, target, t + 1)

\* forward, lines 183-196: a scalar or the exception raised
CustomLossForward(output, target) ==
    IF ~MseLoss(output, target).ok THEN MseLoss(output, target)
    ELSE IF ~SsimLoop(output, target, 0).ok THEN SsimLoop(output, target, 0)
    ELSE IF output[2] = 0 THEN Raise("RuntimeError")  \* torch.stack([])
    ELSE Ok(<<>>)

----------------------------------------------------------------------------
(* Single calls of the components *)

\* batch sizes 1 .. MaxBatch
MaxBatch == 2
\* grids of 8 .. 8 * MaxGrid cells a side, in steps of 8
MaxGrid == 16
\* sequence lengths 0 .. MaxSteps of the tensors handed to the loss
MaxSteps == 3

LossShapes ==
    { <<n, t, c, h, w>> : n \in 1 .. MaxBatch, t \in 0 .. MaxSteps, c \in 1 .. 2,
                          h \in {8 * MaxGrid - 8, 8 * MaxGrid},
                          w \in {8 * MaxGrid - 8, 8 * MaxGrid} }

NoCall == [fn |-> "none", args |-> <<>>, result |-> <<>>]

ForwardInit == call = NoCall

\* Every behaviour evaluates one call.

\* model(x), line 218/230
CallProxyModel ==
    /\ call = NoCall
    /\ UNCHANGED <<loopvars, splitvars, rnnvars>>
    /\ \E n \in 1 .. MaxBatch, gh \in 1 .. MaxGrid, gw \in 1 .. MaxGrid :
        LET x == <<n, 4, 8 * gh, 8 * gw>> IN
        call' = [fn |-> "ProxyModel", args |-> <<x>>, result |-> ProxyModelForward(x)]

\* criterion(y_pred, y), line 219/231
CallCustomLoss ==
    /\ call = NoCall
    /\ UNCHANGED <<loopvars, splitvars, rnnvars>>
    /\ \E output \in LossShapes, target \in LossShapes :
        call' = [fn |-> "CustomLoss", args |-> <<output, target>>,
                 result |-> CustomLossForward(output, target)]

\* VisionTransformer(input_channels, output_channels)(x), with the least
\* output_channels nn.MultiheadAttention accepts for 16 heads
\* (embed_dim % num_heads == 0)
CallVisionTransformer ==
    /\ call = NoCall
    /\ UNCHANGED <<loopvars, splitvars, rnnvars>>
    /\ \E b \in 1 .. MaxDim, ci \in 1 .. MaxDim, h \in 1 .. MaxDim, w \in 1 .. MaxDim :
        LET x == Arange(<<b, ci, h, w>>) IN
        call' = [fn |-> "VisionTransformer", args |-> <<x, num_heads>>,
                 result |-> VisionTransformerForward(x, num_heads)]

\* TimeDistributedModule(nn.Identity())(x)
CallTimeDistributed ==
    /\ call = NoCall
    /\ UNCHANGED <<loopvars, splitvars, rnnvars>>
    /\ \E shape \in [1 .. 5 -> 1 .. MaxDim] :
        LET x == Arange(shape) IN
        call' = [fn |-> "TimeDistributed", args |-> <<x>>,
                 result |-> TimeDistributedForward(x, "Identity")]

ForwardStep ==
    \/ CallProxyModel
    \/ CallCustomLoss
    \/ CallVisionTransformer
    \/ CallTimeDistributed

----------------------------------------------------------------------------
(* RecurrentBlock on data, lines 131-149: every sample's flattened frame   *)
(* is one value of 0 .. MaxVal; the cell state saturates at LstmMod and   *)
(* the hidden state is computed modulo LstmMod                            *)

MaxVal == 1
MaxCalls == 3

RnnBatchSizes == {1, 2}

LstmMod == 2 * MaxVal + 3

\* one step of the LSTM cell for one sample: with fixed weights the new
\* (h, c) is a function of the input and the old (h, c)
LstmCell(x, s) ==
    LET c == IF s.c + x + 1 > LstmMod THEN LstmMod ELSE s.c + x + 1
    IN [h |-> (c + s.h + x) % LstmMod, c |-> c]

ZeroState(batch) == [b \in 1 .. batch |-> [h |-> 0, c |-> 0]]

RECURSIVE LstmRun(_, _, _, _)
\* the (h, c) after each of the steps from .. to of one sample's input
\* sequence, entered in state s.  The steps are taken in order; the range
\* is halved, and the first half is computed before the second starts, to
\* keep the evaluation shallow.
LstmRun(steps, s, from, to) ==
    IF from > to THEN <<>>
    ELSE IF from = to THEN <<LstmCell(steps[from], s)>>
    ELSE LET mid == (from + to) \div 2
             left == LstmRun(steps, s, from, mid)
         IN IF Len(left) > 0
            THEN left \o LstmRun(steps, left[Len(left)], mid + 1, to)
            ELSE left

\* nn.LSTM(batch_first=True) on a (batch, steps) input with initial state
\* hx: (output, (h_n, c_n)), output[b][t] being h of sample b after step t
Lstm(input, hx) ==
    [output |-> [b \in 1 .. Len(input) |->
                    LET run == LstmRun(input[b], hx[b], 1, Len(input[b]))
                    IN [t \in 1 .. Len(run) |-> run[t].h]],
     hx |-> [b \in 1 .. Len(input) |->
                LET run == LstmRun(input[b], hx[b], 1, Len(input[b]))
                IN IF run = <<>> THEN hx[b] ELSE run[Len(run)]]]

\* the state the LSTM starts from: line 145 hands it none, so zeros
InitialStateMutCarried(batch) ==
    IF Len(rnn_hx) = batch THEN rnn_hx ELSE ZeroState(batch)
InitialState(batch) == ZeroState(batch)

\* forward, lines 141-149, for a batch x of flattened frames
RecurrentBlockForward(x) ==
    LET x_repeated == [b \in 1 .. Len(x) |-> [t \in 1 .. timesteps |-> x[b]]]
    IN Lstm(x_repeated, InitialState(Len(x)))

RecurrentInit ==
    /\ rnn_calls = <<>>
    /\ rnn_hx = <<>>

RecurrentCall ==
    /\ Len(rnn_calls) < MaxCalls
    /\ \E batch \in RnnBatchSizes :
          \E x \in [1 .. batch -> 0 .. MaxVal] :
             LET r == RecurrentBlockForward(x) IN
             /\ rnn_calls' = Append(rnn_calls, [x |-> x, out |-> r.output])
             /\ rnn_hx' = r.hx
    /\ UNCHANGED <<loopvars, splitvars, call>>

----------------------------------------------------------------------------
(* The specifications *)

LoopIdle ==
    /\ pool = 0
    /\ pc = "idle"
    /\ epoch_iter = 0
    /\ epoch = NoValue
    /\ train_subset_size = NoValue
    /\ val_subset_size = NoValue
    /\ train_batches = NoValue
    /\ val_batches = NoValue
    /\ batch_idx = 0
    /\ seen = 0
    /\ loss = NoValue
    /\ train_loss = NoValue
    /\ val_loss = NoValue
    /\ tot_train_loss = NoAverage
    /\ tot_valid_loss = NoAverage
    /\ params = 0
    /\ opt_state = 0
    /\ grads = "none"
    /\ training = TRUE
    /\ grad_enabled = TRUE
    /\ ops = <<>>
    /\ stdout = <<>>
    /\ error = "none"

SplitIdle ==
    /\ files = 0
    /\ X_train_fname = <<>>
    /\ X_test_fname = <<>>
    /\ train_subset = <<>>
    /\ val_subset = <<>>
    /\ splits = NoValue

Init == LoopInit /\ SplitIdle /\ ForwardInit /\ RecurrentInit

Next == LoopStep

Spec == Init /\ [][Next]_vars

\* the interpreter runs the script's next statement as long as there is one
FairSpec == Spec /\ WF_vars(Next)

InitSplit == SplitInit /\ LoopIdle /\ ForwardInit /\ RecurrentInit

NextSplit == SplitStep

SpecSplit == InitSplit /\ [][NextSplit]_vars

InitForward == ForwardInit /\ LoopIdle /\ SplitIdle /\ RecurrentInit

NextForward == ForwardStep

SpecForward == InitForward /\ [][NextForward]_vars

InitRecurrent == RecurrentInit /\ LoopIdle /\ SplitIdle /\ ForwardInit

NextRecurrent == RecurrentCall

SpecRecurrent == InitRecurrent /\ [][NextRecurrent]_vars

----------------------------------------------------------------------------
(* The phases of an epoch *)

Phase ==
    CASE pc = "for_epoch" -> "epoch-start"
      [] pc \in {"train_loop", "zero_grad", "forward", "backward", "step",
                 "accumulate"} -> "train-phase"
      [] pc \in {"eval", "val_loop", "val_forward", "val_accumulate"}
                                -> "validation-phase"
      [] pc = "report" -> "epoch-end"
      [] pc = "finished" -> "finished"
      [] OTHER -> "crashed"

PhaseOrder ==
    { <<"epoch-start", "train-phase">>,
      <<"train-phase", "validation-phase">>,
      <<"validation-phase", "epoch-end">>,
      <<"epoch-end", "epoch-start">>,
      <<"epoch-start", "finished">> }

\* epochs whose report step has run
EpochsDone == IF pc \in {"for_epoch", "finished"} THEN epoch_iter ELSE epoch_iter - 1

IsUpdateOp(o) == o \in {"zero_grad", "backward", "step"}

----------------------------------------------------------------------------
(* Claims about the training loop *)

C6_UpdatesOnlyInTrainPhase ==
    /\ [][ /\ (params' # params \/ opt_state' # opt_state) =>
                 /\ pc = "step"
                 /\ params' = params + 1
                 /\ opt_state' = opt_state + 1
           /\ pc' = "accumulate" =>
                 SelectSeq(ops', IsUpdateOp) = <<"zero_grad", "backward", "step">>
           /\ Phase = "validation-phase" =>
                 /\ params' = params
                 /\ opt_state' = opt_state
                 /\ grads' = grads
                 /\ train_loss' = train_loss
                 /\ tot_train_loss' = tot_train_loss
           /\ pc' = "val_accumulate" => ops' = <<"forward", "criterion">>
         ]_vars
    /\ [](pc = "train_loop" => params = epoch * train_batches + batch_idx)

C6_Witness ==
    /\ pc = "val_loop"
    /\ batch_idx = 1
    /\ val_loss > 0
    /\ epoch = 1
    /\ params = 4

\* C7 (as stated): every line printed is a progress report of an epoch
\* that is a multiple of 5, and a finished run has printed exactly the
\* reports of epochs 5, 10, 15 and 20.
C7_OnlyProgressReports ==
    /\ \A i \in 1 .. Len(stdout) :
          stdout[i].kind = "progress" /\ stdout[i].epoch = report_every * i
    /\ pc = "finished" => Len(stdout) = num_epochs \div report_every

\* C7 (amended): the output is one progress report per completed fifth
\* epoch, the i-th carrying epoch index 5*i, the epoch count and that
\* epoch's averaged training and validation loss to 4 decimals, followed at
\* the end of the run by the single line "Training finished."; nothing
\* else is printed.
C7_ReportsThenFinishedLine ==
    LET r == EpochsDone \div report_every IN
    /\ Len(stdout) = r + (IF pc = "finished" THEN 1 ELSE 0)
    /\ \A i \in 1 .. r :
          /\ stdout[i].kind = "progress"
          /\ stdout[i].epoch = report_every * i
          /\ stdout[i].of = num_epochs
    /\ pc = "finished" =>
          /\ Len(stdout) = num_epochs \div report_every + 1
          /\ stdout[Len(stdout)] = FinishedLine
    /\ (pc = "for_epoch" /\ EpochsDone > 0 /\ EpochsDone % report_every = 0) =>
          /\ stdout[r].loss = Fmt4(train_loss, train_batches)
          /\ stdout[r].val = Fmt4(val_loss, val_batches)

C7_Witness ==
    /\ pc = "finished"
    /\ Len(stdout) = 5
    /\ stdout[1].loss = 15000
    /\ stdout[2].loss = 20000
    /\ stdout[4].val = 10000

\* C10: with a pool of at least 2 samples both subsets and both loaders are
\* non-empty in every epoch, no division at the end of a phase raises, and
\* both averages are taken over a positive batch count.
C10_SubsetsNonEmpty ==
    pool >= 2 =>
        /\ pc # "crashed"
        /\ error = "none"
        /\ train_subset_size # NoValue =>
              /\ train_subset_size >= 1
              /\ val_subset_size >= 1
              /\ train_batches >= 1
              /\ val_batches >= 1
        /\ tot_train_loss # NoAverage => tot_train_loss.den >= 1
        /\ tot_valid_loss # NoAverage => tot_valid_loss.den >= 1

C10_Witness ==
    /\ pool = 2
    /\ pc = "report"
    /\ train_subset_size = 1
    /\ val_subset_size = 1
    /\ tot_valid_loss.den = 1

----------------------------------------------------------------------------
(* Claims about the data splits *)

\* C5: every epoch's re-split gives a training subset of floor(0.8 n) and a
\* validation subset of the other n - floor(0.8 n) samples of the pool of
\* n; the two are disjoint, together they are the whole pool, and no file
\* of the test set is a sample of either.
C5_SplitPartitionsPool ==
    splits # NoValue /\ splits >= 1 =>
        LET n == Len(X_train_fname)
            tr == Range(train_subset)
            va == Range(val_subset)
        IN /\ 10 * Len(train_subset) <= 8 * n
           /\ 8 * n < 10 * (Len(train_subset) + 1)
           /\ Len(val_subset) = n - Len(train_subset)
           /\ Cardinality(tr) = Len(train_subset)
           /\ Cardinality(va) = Len(val_subset)
           /\ tr \cap va = {}
           /\ tr \cup va = 1 .. n
           /\ Samples(train_subset) \cap Samples(val_subset) = {}
           /\ Samples(train_subset) \cup Samples(val_subset) = Range(X_train_fname)
           /\ Cardinality(Range(X_train_fname)) = n
           /\ (Samples(train_subset) \cup Samples(val_subset))
                 \cap Range(X_test_fname) = {}

C5_Witness ==
    /\ splits = 2
    /\ files = 4
    /\ Len(X_test_fname) = 1
    /\ Len(train_subset) = 2
    /\ val_subset = <<1>>

----------------------------------------------------------------------------
(* Claims about single calls *)

C2_MismatchRaises ==
    (call.fn = "CustomLoss" /\ call.args[1] # call.args[2]) => ~call.result.ok

\* C3: the token the feed-forward gets for position (b, h, w) is the channel
\* vector of the attention output at (b, h, w), and the block's output at
\* (b, :, h, w) is the feed-forward result of that vector.
C3_FfnPerPosition ==
    call.fn = "VisionTransformer" =>
        LET r == call.result
            C == r.attended.shape[2]
            W == r.attended.shape[4]
        IN \A i \in Indices(<<r.attended.shape[1], r.attended.shape[3], W>>) :
              LET v == [c \in 1 .. C |-> At(r.attended, <<i[1], c - 1, i[2], i[3]>>)]
              IN /\ Token(r.tokens, <<i[1], i[2] * W + i[3]>>) = v
                 /\ \A c \in 0 .. C - 1 :
                       At(r.output, <<i[1], c, i[2], i[3]>>)
                          = [op |-> "ffn", in |-> v, ch |-> c]

\* C8: wrapping the identity, the time-distributed wrapper returns a tensor
\* of the input's shape whose element at every index is the input's.
C8_IdentityRoundTrip ==
    call.fn = "TimeDistributed" =>
        LET x == call.args[1]
        IN /\ call.result.shape = x.shape
           /\ \A idx \in Indices(x.shape) : At(call.result, idx) = At(x, idx)

C8_Witness ==
    /\ call.fn = "TimeDistributed"
    /\ call.args[1].shape = <<2, 1, 2, 1, 2>>
    /\ At(call.result, <<1, 0, 1, 0, 1>>) = 7

----------------------------------------------------------------------------
(* Claims about the recurrent block *)

\* C9: the block carries no memory across forward calls: every call starts
\* the cell from the zero state, and two calls with the same input return
\* the same output whatever was processed in between.
C9_NoMemoryAcrossCalls ==
    /\ \A i \in 1 .. Len(rnn_calls) :
          \A b \in 1 .. Len(rnn_calls[i].x) :
             rnn_calls[i].out[b][1] = LstmCell(rnn_calls[i].x[b], [h |-> 0, c |-> 0]).h
    /\ \A i, j \in 1 .. Len(rnn_calls) :
          rnn_calls[i].x = rnn_calls[j].x => rnn_calls[i].out = rnn_calls[j].out

C9_Witness ==
    /\ Len(rnn_calls) = 3
    /\ rnn_calls[1].x = rnn_calls[3].x
    /\ rnn_calls[2].x # rnn_calls[1].x
    /\ rnn_calls[2].out # rnn_calls[1].out
    /\ Len(rnn_calls[1].x) = Len(rnn_calls[2].x)
    /\ rnn_calls[1].out = rnn_calls[3].out
    /\ rnn_hx # ZeroState(Len(rnn_hx))

====
